---- MODULE Spec2Model ----
(***************************************************************************)
(* Model of brewsweep: the scan worker (scanner.rs, scan_packages), the    *)
(* delete worker (scanner.rs, delete_package_with_output) and the control  *)
(* thread that owns the App state machine (main.rs, App::run).             *)
(*                                                                         *)
(* Option<T> values are sequences of length at most one: None is <<>> and  *)
(* Some(x) is <<x>>.  A SystemTime is a positive integer.                  *)
(***************************************************************************)
EXTENDS Integers, Sequences, FiniteSets, TLC

\* ---------------------------------------------------------------- bounds
MaxFormulas == 1
MaxCasks == 1
MaxTime == 2
MaxStdout == 1
MaxStderr == 1
MaxScans == 2
MaxDeletes == 2

\* Package names the manager may report.
Names == {"a"}

None == <<>>

Some(x) == <<x>>

\* ------------------------------------------------------------ data types
Package(n, t, la, lap) ==
    [name |-> n, package_type |-> t, last_accessed |-> la, last_accessed_path |-> lap]

Label(l, n) == [label |-> l, name |-> n]

ScanningStateNew ==
    [packages_found |-> 0,
     packages_scanned |-> 0,
     total_packages |-> 0,
     current_path |-> Label("Initializing...", ""),
     is_paused |-> FALSE,
     scan_complete |-> FALSE,
     error_message |-> None]

Table == [tag |-> "Table", idx |-> 0]

Scanning == [tag |-> "Scanning", idx |-> 0]

ScanComplete == [tag |-> "ScanComplete", idx |-> 0]

PackageSelected(k) == [tag |-> "PackageSelected", idx |-> k]

ConfirmDelete(k) == [tag |-> "ConfirmDelete", idx |-> k]

Deleting(k) == [tag |-> "Deleting", idx |-> k]

\* Sequences over S of length at most n.
SeqUpTo(S, n) == UNION {[1..k -> S] : k \in 0..n}

\* ------------------------------------------------------------- variables
VARIABLES
    app_state,               \* App.app_state
    items,                   \* App.items (the inventory)
    selected,                \* App.state.selected(): None or Some(row)
    scanner,                 \* App.scanner is Some
    delete_output_receiver,  \* App.delete_output_receiver is Some
    delete_result_receiver,  \* App.delete_result_receiver is Some
    delete_output,           \* App.delete_output
    delete_message,          \* App.delete_message
    delete_success,          \* App.delete_success
    ctl_pc,                  \* position of the control thread in App::run
    last_op,                 \* the last thing the control thread did
    sstate,                  \* HomebrewScanner.state (behind its mutex)
    state_lock,              \* who holds the mutex of HomebrewScanner.state
    packages,                \* HomebrewScanner.packages (behind its mutex)
    spc,                     \* position of the scan worker in scan_packages
    formulas,                \* scan worker local
    casks,                   \* scan worker local
    i,                       \* scan worker loop index (0-based)
    all_packages,            \* scan worker local
    err,                     \* the Err scan_packages returned
    list_outcomes,           \* how the two list queries of this scan ended
    scan_threads,            \* scan threads spawned and still running
    scans_started,           \* number of scans started so far
    out_ch,                  \* output channel: lines sent, not yet received
    res_ch,                  \* result channel: results sent, not yet received
    dpc,                     \* position of the delete worker
    dpkg,                    \* the package the delete worker was given
    dsent,                   \* lines of the current stream already sent
    dresult,                 \* result of delete_package_with_output
    delete_threads,          \* delete threads spawned and still running
    deletes_started          \* number of deletes started so far

app_data == <<app_state, items, selected, scanner, delete_output_receiver,
              delete_result_receiver, delete_output, delete_message,
              delete_success>>

app_vars == <<app_data, ctl_pc, last_op>>

scan_vars == <<sstate, state_lock, packages, spc, formulas, casks, i, all_packages, err, list_outcomes,
               scan_threads, scans_started>>

del_vars == <<out_ch, res_ch, dpc, dpkg, dsent, dresult, delete_threads, deletes_started>>

vars == <<app_vars, scan_vars, del_vars>>

NoPackage == Package("", "Formula", None, None)

Init ==
    /\ app_state = Table
    /\ items = <<>>
    /\ selected = Some(0)
    /\ scanner = FALSE
    /\ delete_output_receiver = FALSE
    /\ delete_result_receiver = FALSE
    /\ delete_output = <<>>
    /\ delete_message = None
    /\ delete_success = FALSE
    /\ ctl_pc = "event"
    /\ last_op = "new"
    /\ sstate = ScanningStateNew
    /\ state_lock = "free"
    /\ packages = <<>>
    /\ spc = "none"
    /\ formulas = <<>>
    /\ casks = <<>>
    /\ i = 0
    /\ all_packages = <<>>
    /\ err = None
    /\ list_outcomes = <<"not_run", "not_run">>
    /\ scan_threads = 0
    /\ scans_started = 0
    /\ out_ch = <<>>
    /\ res_ch = <<>>
    /\ dpc = "none"
    /\ dpkg = NoPackage
    /\ dsent = 0
    /\ dresult = None
    /\ delete_threads = 0
    /\ deletes_started = 0

\* The process is alive until the control thread returns from run.
Running == ctl_pc # "quit"

\* ------------------------------------------------------------ scan worker
\* Outcome of running a manager query: the process could not be started,
\* or it ran and exited with a status and some text on standard output.
QueryOutcomes == {"spawn_failed", "nonzero_exit", "invalid_utf8", "ok"}

\* .lines().map(trim).filter(not empty) of a list query's output.
RECURSIVE ParseLines(_)
ParseLines(raw) ==
    IF raw = <<>> THEN <<>>
    ELSE IF Head(raw) = "" THEN ParseLines(Tail(raw))
    ELSE <<Head(raw)>> \o ParseLines(Tail(raw))

\* Variant of ListQuery: a query that cannot be started counts as an
\* empty list, as a non-zero exit does.
ListQuery_SpawnAsEmpty(outcome, raw, what) ==
    CASE outcome \in {"spawn_failed", "nonzero_exit"} ->
              [ok |-> TRUE, names |-> <<>>, msg |-> ""]
      [] outcome = "invalid_utf8" -> [ok |-> FALSE, names |-> <<>>,
                                      msg |-> "Invalid UTF-8 in " \o what \o "s output"]
      [] OTHER -> [ok |-> TRUE, names |-> ParseLines(raw), msg |-> ""]

\* One list query of get_installed_packages: Err(msg) or Ok(names).
ListQuery(outcome, raw, what) ==
    CASE outcome = "spawn_failed" -> [ok |-> FALSE, names |-> <<>>,
                                      msg |-> "Failed to get " \o what \o " list"]
      [] outcome = "nonzero_exit" -> [ok |-> TRUE, names |-> <<>>, msg |-> ""]
      [] outcome = "invalid_utf8" -> [ok |-> FALSE, names |-> <<>>,
                                      msg |-> "Invalid UTF-8 in " \o what \o "s output"]
      [] OTHER -> [ok |-> TRUE, names |-> ParseLines(raw), msg |-> ""]

\* get_homebrew_prefix: Err(msg) or Ok.
PrefixQuery(outcome) ==
    CASE outcome = "spawn_failed" -> Some("failed to run 'brew --prefix'")
      [] outcome = "nonzero_exit" -> Some("Hombrew not found or not properly installed.")
      [] outcome = "invalid_utf8" -> Some("Invalid UTF-8 in brew --prefix output")
      [] OTHER -> None

\* Variant of ScanLabelPrefix: the lock taken for the label is still held
\* when the prefix query runs.
ScanLabelPrefix_KeepsLock ==
    /\ Running /\ spc = "label_prefix"
    /\ sstate' = [sstate EXCEPT !.current_path = Label("Getting Hombrew prefix...", "")]
    /\ state_lock' = "scan_worker"
    /\ spc' = "prefix"
    /\ UNCHANGED <<list_outcomes, packages, formulas, casks, i, all_packages, err, scan_threads,
                   scans_started, app_vars, del_vars>>

ScanLabelPrefix ==
    /\ Running /\ spc = "label_prefix"
    /\ sstate' = [sstate EXCEPT !.current_path = Label("Getting Hombrew prefix...", "")]
    /\ spc' = "prefix"
    /\ UNCHANGED <<list_outcomes, state_lock, packages, formulas, casks, i, all_packages, err, scan_threads,
                   scans_started, app_vars, del_vars>>

ScanPrefix ==
    /\ Running /\ spc = "prefix"
    /\ \E outcome \in QueryOutcomes :
         /\ err' = PrefixQuery(outcome)
         /\ spc' = IF err' = None THEN "label_list" ELSE "failed"
    /\ UNCHANGED <<list_outcomes, state_lock, sstate, packages, formulas, casks, i, all_packages, scan_threads,
                   scans_started, app_vars, del_vars>>

ScanLabelList ==
    /\ Running /\ spc = "label_list"
    /\ sstate' = [sstate EXCEPT !.current_path = Label("Getting package list...", "")]
    /\ spc' = "list"
    /\ UNCHANGED <<list_outcomes, state_lock, packages, formulas, casks, i, all_packages, err, scan_threads,
                   scans_started, app_vars, del_vars>>

ScanList ==
    /\ Running /\ spc = "list"
    /\ \E fo \in QueryOutcomes, co \in QueryOutcomes,
          fraw \in SeqUpTo(Names \cup {""}, MaxFormulas),
          craw \in SeqUpTo(Names \cup {""}, MaxCasks) :
         LET f == ListQuery(fo, fraw, "foruma")
             c == ListQuery(co, craw, "cask")
         IN  IF ~f.ok
             THEN /\ err' = Some(f.msg)
                  /\ spc' = "failed"
                  /\ list_outcomes' = <<fo, "not_run">>
                  /\ UNCHANGED <<formulas, casks>>
             ELSE IF ~c.ok
             THEN /\ err' = Some(c.msg)
                  /\ spc' = "failed"
                  /\ list_outcomes' = <<fo, co>>
                  /\ UNCHANGED <<formulas, casks>>
             ELSE /\ formulas' = f.names
                  /\ casks' = c.names
                  /\ spc' = "total"
                  /\ list_outcomes' = <<fo, co>>
                  /\ UNCHANGED err
    /\ UNCHANGED <<sstate, state_lock, packages, i, all_packages, scan_threads,
                   scans_started, app_vars, del_vars>>

\* Variant of ScanSetTotal: the casks are left out of the total.
ScanSetTotal_FormulasOnly ==
    /\ Running /\ spc = "total"
    /\ sstate' = [sstate EXCEPT !.total_packages = Len(formulas)]
    /\ all_packages' = <<>>
    /\ i' = 0
    /\ spc' = "formula_check"
    /\ UNCHANGED <<list_outcomes, state_lock, packages, formulas, casks, err, scan_threads,
                   scans_started, app_vars, del_vars>>

ScanSetTotal ==
    /\ Running /\ spc = "total"
    /\ sstate' = [sstate EXCEPT !.total_packages = Len(formulas) + Len(casks)]
    /\ all_packages' = <<>>
    /\ i' = 0
    /\ spc' = "formula_check"
    /\ UNCHANGED <<list_outcomes, state_lock, packages, formulas, casks, err, scan_threads, scans_started,
                   app_vars, del_vars>>

\* The loop head and the pause check of one iteration.
PauseBreak == sstate.is_paused /\ ~sstate.scan_complete

\* With formulas left, the state is locked for the check; a break drops the
\* lock, otherwise the worker sleeps with the lock held.
FormulaCheckPause ==
    /\ Running /\ spc = "formula_check"
    /\ IF i >= Len(formulas) \/ PauseBreak
       THEN /\ spc' = "cask_check"
            /\ i' = 0
            /\ UNCHANGED state_lock
       ELSE /\ spc' = "formula_sleep"
            /\ state_lock' = "scan_worker"
            /\ UNCHANGED i
    /\ UNCHANGED <<list_outcomes, sstate, packages, formulas, casks, all_packages, err, scan_threads,
                   scans_started, app_vars, del_vars>>

\* thread::sleep is over and the scope of the lock ends.
FormulaSleep ==
    /\ Running /\ spc = "formula_sleep"
    /\ state_lock' = "free"
    /\ spc' = "formula_scanned"
    /\ UNCHANGED <<list_outcomes, sstate, packages, formulas, casks, i, all_packages, err,
                   scan_threads, scans_started, app_vars, del_vars>>

\* Variant of FormulaScannedCount: the formula under scan is not counted.
FormulaScannedCount_Lagging(k) == k

FormulaScannedCount(k) == k + 1

FormulaScanned ==
    /\ Running /\ spc = "formula_scanned"
    /\ sstate' = [sstate EXCEPT !.packages_scanned = FormulaScannedCount(i),
                                !.current_path = Label("Scanning formula: ", formulas[i + 1])]
    /\ spc' = "formula_find"
    /\ UNCHANGED <<list_outcomes, state_lock, packages, formulas, casks, i, all_packages, err, scan_threads,
                   scans_started, app_vars, del_vars>>

\* find_package_paths(..).first() and get_file_acess_info of it.
AccessInfo(first, atime) ==
    IF first = None THEN <<None, None>> ELSE <<atime, first>>

Times == 1..MaxTime

FormulaFind ==
    /\ Running /\ spc = "formula_find"
    /\ \E first \in {None, Some("path")}, atime \in {None} \cup {Some(t) : t \in Times} :
         LET info == AccessInfo(first, atime)
         IN  all_packages' = Append(all_packages,
                                    Package(formulas[i + 1], "Formula", info[1], info[2]))
    /\ spc' = "formula_found"
    /\ UNCHANGED <<list_outcomes, state_lock, sstate, packages, formulas, casks, i, err, scan_threads,
                   scans_started, app_vars, del_vars>>

FormulaFound ==
    /\ Running /\ spc = "formula_found"
    /\ sstate' = [sstate EXCEPT !.packages_found = Len(all_packages)]
    /\ i' = i + 1
    /\ spc' = "formula_check"
    /\ UNCHANGED <<list_outcomes, state_lock, packages, formulas, casks, all_packages, err, scan_threads,
                   scans_started, app_vars, del_vars>>

\* Variant of CaskCheckPause: the break does not drop the lock, which is
\* then still held when the package buffer is locked.
CaskCheckPause_KeepsLockOnBreak ==
    /\ Running /\ spc = "cask_check"
    /\ IF i >= Len(casks)
       THEN /\ spc' = "publish"
            /\ UNCHANGED state_lock
       ELSE IF PauseBreak
       THEN /\ spc' = "publish"
            /\ state_lock' = "scan_worker"
       ELSE /\ spc' = "cask_sleep"
            /\ state_lock' = "scan_worker"
    /\ UNCHANGED <<list_outcomes, sstate, packages, formulas, casks, i, all_packages, err, scan_threads,
                   scans_started, app_vars, del_vars>>

CaskCheckPause ==
    /\ Running /\ spc = "cask_check"
    /\ IF i >= Len(casks) \/ PauseBreak
       THEN /\ spc' = "publish"
            /\ UNCHANGED state_lock
       ELSE /\ spc' = "cask_sleep"
            /\ state_lock' = "scan_worker"
    /\ UNCHANGED <<list_outcomes, sstate, packages, formulas, casks, i, all_packages, err, scan_threads,
                   scans_started, app_vars, del_vars>>

CaskSleep ==
    /\ Running /\ spc = "cask_sleep"
    /\ state_lock' = "free"
    /\ spc' = "cask_scanned"
    /\ UNCHANGED <<list_outcomes, sstate, packages, formulas, casks, i, all_packages, err,
                   scan_threads, scans_started, app_vars, del_vars>>

CaskScannedCount(nf, k) == nf + k + 1

CaskScanned ==
    /\ Running /\ spc = "cask_scanned"
    /\ sstate' = [sstate EXCEPT !.packages_scanned = CaskScannedCount(Len(formulas), i),
                                !.current_path = Label("Scanning cask: ", casks[i + 1])]
    /\ spc' = "cask_find"
    /\ UNCHANGED <<list_outcomes, state_lock, packages, formulas, casks, i, all_packages, err, scan_threads,
                   scans_started, app_vars, del_vars>>

CaskFind ==
    /\ Running /\ spc = "cask_find"
    /\ \E first \in {None, Some("path")}, atime \in {None} \cup {Some(t) : t \in Times} :
         LET info == AccessInfo(first, atime)
         IN  all_packages' = Append(all_packages,
                                    Package(casks[i + 1], "Cask", info[1], info[2]))
    /\ spc' = "cask_found"
    /\ UNCHANGED <<list_outcomes, state_lock, sstate, packages, formulas, casks, i, err, scan_threads,
                   scans_started, app_vars, del_vars>>

CaskFound ==
    /\ Running /\ spc = "cask_found"
    /\ sstate' = [sstate EXCEPT !.packages_found = Len(all_packages)]
    /\ i' = i + 1
    /\ spc' = "cask_check"
    /\ UNCHANGED <<list_outcomes, state_lock, packages, formulas, casks, all_packages, err, scan_threads,
                   scans_started, app_vars, del_vars>>

\* Variant of ScanPublish: scan_complete is set before the buffer is written.
ScanPublish_CompleteFirst ==
    /\ Running /\ spc = "publish"
    /\ sstate' = [sstate EXCEPT !.scan_complete = TRUE]
    /\ spc' = "complete"
    /\ UNCHANGED <<list_outcomes, state_lock, packages, formulas, casks, i, all_packages, err, scan_threads,
                   scans_started, app_vars, del_vars>>

\* *packages = all_packages, under the lock of the package buffer.
ScanPublish ==
    /\ Running /\ spc = "publish"
    /\ packages' = all_packages
    /\ spc' = "complete"
    /\ UNCHANGED <<list_outcomes, state_lock, sstate, formulas, casks, i, all_packages, err, scan_threads,
                   scans_started, app_vars, del_vars>>

\* The worker's locals die with the thread.
ScanThreadExit ==
    /\ spc' = "done"
    /\ formulas' = <<>>
    /\ casks' = <<>>
    /\ i' = 0
    /\ all_packages' = <<>>
    /\ err' = None
    /\ scan_threads' = scan_threads - 1

\* Variant of ScanSetComplete: the worker writes the closing label and
\* exits without marking the scan complete.
ScanSetComplete_LabelOnly ==
    /\ Running /\ spc = "complete"
    /\ sstate' = [sstate EXCEPT !.current_path = Label("Scan complete!", "")]
    /\ ScanThreadExit
    /\ UNCHANGED <<list_outcomes, state_lock, packages, scans_started, app_vars, del_vars>>

ScanSetComplete ==
    /\ Running /\ spc = "complete"
    /\ sstate' = [sstate EXCEPT !.scan_complete = TRUE,
                                !.current_path = Label("Scan complete!", "")]
    /\ ScanThreadExit
    /\ UNCHANGED <<list_outcomes, state_lock, packages, scans_started, app_vars, del_vars>>

\* Variant of ScanFailed: the scan is marked complete, the error is dropped.
ScanFailed_NoMessage ==
    /\ Running /\ spc = "failed"
    /\ sstate' = [sstate EXCEPT !.scan_complete = TRUE]
    /\ ScanThreadExit
    /\ UNCHANGED <<list_outcomes, state_lock, packages, scans_started, app_vars, del_vars>>

\* start_scan on Err(e): error_message and scan_complete under one lock.
ScanFailed ==
    /\ Running /\ spc = "failed"
    /\ sstate' = [sstate EXCEPT !.error_message = err,
                                !.scan_complete = TRUE]
    /\ ScanThreadExit
    /\ UNCHANGED <<list_outcomes, state_lock, packages, scans_started, app_vars, del_vars>>

ScanWorker ==
    \/ ScanLabelPrefix \/ ScanPrefix \/ ScanLabelList \/ ScanList \/ ScanSetTotal
    \/ FormulaCheckPause \/ FormulaSleep \/ FormulaScanned \/ FormulaFind \/ FormulaFound
    \/ CaskCheckPause \/ CaskSleep \/ CaskScanned \/ CaskFind \/ CaskFound
    \/ ScanPublish \/ ScanSetComplete \/ ScanFailed

\* ---------------------------------------------------------- delete worker
Line(src, n) == [src |-> src, n |-> n]

Ok == [ok |-> TRUE, msg |-> "", code |-> None]

Err(msg, code) == [ok |-> FALSE, msg |-> msg, code |-> code]

\* output_sender.send(line): an error (receiver dropped) is ignored.
Send(line) ==
    out_ch' = IF delete_output_receiver THEN Append(out_ch, line) ELSE out_ch

DeleteSendCommandLine ==
    /\ Running /\ dpc = "command_line"
    /\ Send(Line("command_line", 0))
    /\ dpc' = "blank"
    /\ UNCHANGED <<res_ch, dpkg, dsent, dresult, delete_threads, deletes_started, app_vars, scan_vars>>

DeleteSendBlank ==
    /\ Running /\ dpc = "blank"
    /\ Send(Line("blank", 0))
    /\ dpc' = "spawn"
    /\ UNCHANGED <<res_ch, dpkg, dsent, dresult, delete_threads, deletes_started, app_vars, scan_vars>>

\* Variant of DeleteSpawn: a failure to start the process is also reported
\* as an output line.
DeleteSpawn_ReportsFailure ==
    /\ Running /\ dpc = "spawn"
    /\ \E spawned \in BOOLEAN :
         IF spawned
         THEN /\ dpc' = "stdout"
              /\ dsent' = 0
              /\ UNCHANGED <<dresult, out_ch>>
         ELSE /\ dpc' = "result"
              /\ dresult' = Some(Err("Failed to start brew uninstall", None))
              /\ Send(Line("stderr", 1))
              /\ UNCHANGED dsent
    /\ UNCHANGED <<res_ch, dpkg, delete_threads, deletes_started, app_vars, scan_vars>>

\* Command::spawn of brew uninstall: the child runs, or Err is returned.
DeleteSpawn ==
    /\ Running /\ dpc = "spawn"
    /\ \E spawned \in BOOLEAN :
         IF spawned
         THEN /\ dpc' = "stdout"
              /\ dsent' = 0
              /\ UNCHANGED dresult
         ELSE /\ dpc' = "result"
              /\ dresult' = Some(Err("Failed to start brew uninstall", None))
              /\ UNCHANGED dsent
    /\ UNCHANGED <<out_ch, res_ch, dpkg, delete_threads, deletes_started, app_vars, scan_vars>>

\* One iteration of the loop over the child's standard output: a line,
\* or the end of the stream (or a read error, which also breaks).
\* The child writes at most max lines.
DeleteStdoutLines(max) ==
    /\ Running /\ dpc = "stdout"
    /\ \/ /\ dsent < max
          /\ Send(Line("stdout", dsent + 1))
          /\ dsent' = dsent + 1
          /\ UNCHANGED dpc
       \/ /\ dpc' = "wait"
          /\ dsent' = 0
          /\ UNCHANGED out_ch
    /\ UNCHANGED <<res_ch, dpkg, dresult, delete_threads, deletes_started, app_vars, scan_vars>>

DeleteStdout == DeleteStdoutLines(MaxStdout)

\* child.wait(): an error, or an exit status (success, a code, or no code).
DeleteWait ==
    /\ Running /\ dpc = "wait"
    /\ \E outcome \in {"wait_failed", "success", "exit_code", "no_code"} :
         CASE outcome = "wait_failed" ->
                /\ dresult' = Some(Err("Failed to wait for brew process", None))
                /\ dpc' = "result"
           [] outcome = "success" ->
                /\ dpc' = "ok_blank"
                /\ UNCHANGED dresult
           [] outcome = "exit_code" ->
                /\ dresult' = Some(Err("brew uninstall failed with exit code", Some(1)))
                /\ dpc' = "stderr"
           [] OTHER ->
                /\ dresult' = Some(Err("brew uninstall failed with exit code", None))
                /\ dpc' = "stderr"
    /\ UNCHANGED <<out_ch, res_ch, dpkg, dsent, delete_threads, deletes_started, app_vars, scan_vars>>

DeleteStderr ==
    /\ Running /\ dpc = "stderr"
    /\ \/ /\ dsent < MaxStderr
          /\ Send(Line("stderr", dsent + 1))
          /\ dsent' = dsent + 1
          /\ UNCHANGED dpc
       \/ /\ dpc' = "result"
          /\ dsent' = 0
          /\ UNCHANGED out_ch
    /\ UNCHANGED <<res_ch, dpkg, dresult, delete_threads, deletes_started, app_vars, scan_vars>>

\* Variant of DeleteSendOkBlank: no blank line precedes the success marker.
DeleteSendOkBlank_NoBlank ==
    /\ Running /\ dpc = "ok_blank"
    /\ dpc' = "ok_marker"
    /\ UNCHANGED <<out_ch, res_ch, dpkg, dsent, dresult, delete_threads, deletes_started,
                   app_vars, scan_vars>>

DeleteSendOkBlank ==
    /\ Running /\ dpc = "ok_blank"
    /\ Send(Line("blank", 0))
    /\ dpc' = "ok_marker"
    /\ UNCHANGED <<res_ch, dpkg, dsent, dresult, delete_threads, deletes_started, app_vars, scan_vars>>

DeleteSendOkMarker ==
    /\ Running /\ dpc = "ok_marker"
    /\ Send(Line("success_marker", 0))
    /\ dresult' = Some(Ok)
    /\ dpc' = "result"
    /\ UNCHANGED <<res_ch, dpkg, dsent, delete_threads, deletes_started, app_vars, scan_vars>>

\* Variant of DeleteSendResult: the thread ends without sending the result.
DeleteSendResult_Dropped ==
    /\ Running /\ dpc = "result"
    /\ dpc' = "done"
    /\ dpkg' = NoPackage
    /\ dresult' = None
    /\ delete_threads' = delete_threads - 1
    /\ UNCHANGED <<out_ch, res_ch, dsent, deletes_started, app_vars, scan_vars>>

\* result_sender.send(result), the last statement of the thread.
DeleteSendResult ==
    /\ Running /\ dpc = "result"
    /\ res_ch' = IF delete_result_receiver THEN Append(res_ch, dresult[1]) ELSE res_ch
    /\ dpc' = "done"
    /\ dpkg' = NoPackage
    /\ dresult' = None
    /\ delete_threads' = delete_threads - 1
    /\ UNCHANGED <<out_ch, dsent, deletes_started, app_vars, scan_vars>>

DeleteWorker ==
    \/ DeleteSendCommandLine \/ DeleteSendBlank \/ DeleteSpawn \/ DeleteStdout
    \/ DeleteWait \/ DeleteStderr \/ DeleteSendOkBlank \/ DeleteSendOkMarker
    \/ DeleteSendResult

\* Variant of CompareUsage: a package never used sorts behind a used one.
CompareUsage_NoneLast(a, b) ==
    CASE a.last_accessed = None /\ b.last_accessed = None -> "Equal"
      [] a.last_accessed = None /\ b.last_accessed # None -> "Greater"
      [] a.last_accessed # None /\ b.last_accessed = None -> "Less"
      [] OTHER -> IF a.last_accessed[1] < b.last_accessed[1] THEN "Less"
                  ELSE IF a.last_accessed[1] > b.last_accessed[1] THEN "Greater"
                  ELSE "Equal"

\* ------------------------------------------------- inventory and sorting
\* The comparison closure of sort_packages_by_usage.
CompareUsage(a, b) ==
    CASE a.last_accessed = None /\ b.last_accessed = None -> "Equal"
      [] a.last_accessed = None /\ b.last_accessed # None -> "Less"
      [] a.last_accessed # None /\ b.last_accessed = None -> "Greater"
      [] OTHER -> IF a.last_accessed[1] < b.last_accessed[1] THEN "Less"
                  ELSE IF a.last_accessed[1] > b.last_accessed[1] THEN "Greater"
                  ELSE "Equal"

\* Variant of StableInsert: x goes before the elements it compares equal to.
RECURSIVE StableInsert_BeforeEqual(_, _)
StableInsert_BeforeEqual(x, s) ==
    IF s = <<>> THEN <<x>>
    ELSE IF CompareUsage(x, s[Len(s)]) \in {"Less", "Equal"}
         THEN Append(StableInsert_BeforeEqual(x, SubSeq(s, 1, Len(s) - 1)), s[Len(s)])
         ELSE Append(s, x)

\* slice::sort_by is a stable sort: x goes behind every element that does
\* not compare greater than it.
RECURSIVE StableInsert(_, _)
StableInsert(x, s) ==
    IF s = <<>> THEN <<x>>
    ELSE IF CompareUsage(x, s[Len(s)]) = "Less"
         THEN Append(StableInsert(x, SubSeq(s, 1, Len(s) - 1)), s[Len(s)])
         ELSE Append(s, x)

RECURSIVE SortByUsage(_)
SortByUsage(s) ==
    IF s = <<>> THEN <<>>
    ELSE StableInsert(s[Len(s)], SortByUsage(SubSeq(s, 1, Len(s) - 1)))

\* Variant of SortedItems: the items are left in the order they came in.
SortedItems_Unsorted(its) == its

\* sort_packages_by_usage: the sorted items and the selection it leaves.
SortedItems(its) == SortByUsage(its)

SelectionAfterSort(its, sel) == IF its # <<>> THEN Some(0) ELSE sel

\* Variant of RemoveAt: the element behind position k is removed.
RemoveAt_OffByOne(s, k) == SubSeq(s, 1, k + 1) \o SubSeq(s, k + 3, Len(s))

\* Vec::remove(k), k counted from 0.
RemoveAt(s, k) == SubSeq(s, 1, k) \o SubSeq(s, k + 2, Len(s))

\* ----------------------------------------------------------- control thread
\* Where the loop of run goes after handling an event.
AfterEvent(st) == IF st.tag \in {"Scanning", "Deleting"} THEN "tick" ELSE "event"

\* Variant of start_scanning: the new scan state inherits is_paused from
\* the previous one.
start_scanning_KeepsPause ==
    /\ app_state' = Scanning
    /\ items' = <<>>
    /\ scanner' = TRUE
    /\ sstate' = [ScanningStateNew EXCEPT !.is_paused = sstate.is_paused]
    /\ state_lock' = "free"
    /\ packages' = <<>>
    /\ spc' = "label_prefix"
    /\ formulas' = <<>>
    /\ casks' = <<>>
    /\ i' = 0
    /\ all_packages' = <<>>
    /\ err' = None
    /\ list_outcomes' = <<"not_run", "not_run">>
    /\ scan_threads' = scan_threads + 1
    /\ scans_started' = scans_started + 1
    /\ last_op' = "start_scanning"
    /\ UNCHANGED <<selected, delete_output_receiver, delete_result_receiver,
                   delete_output, delete_message, delete_success, del_vars>>

\* Variant of start_scanning: the new scan shares the package buffer of the
\* previous scanner instead of getting a fresh one.
start_scanning_KeepsBuffer ==
    /\ app_state' = Scanning
    /\ items' = <<>>
    /\ scanner' = TRUE
    /\ sstate' = ScanningStateNew
    /\ state_lock' = "free"
    /\ packages' = packages
    /\ spc' = "label_prefix"
    /\ formulas' = <<>>
    /\ casks' = <<>>
    /\ i' = 0
    /\ all_packages' = <<>>
    /\ err' = None
    /\ list_outcomes' = <<"not_run", "not_run">>
    /\ scan_threads' = scan_threads + 1
    /\ scans_started' = scans_started + 1
    /\ last_op' = "start_scanning"
    /\ UNCHANGED <<selected, delete_output_receiver, delete_result_receiver,
                   delete_output, delete_message, delete_success, del_vars>>

\* App::start_scanning: a new scanner, its worker spawned, the inventory cleared.
start_scanning ==
    /\ app_state' = Scanning
    /\ items' = <<>>
    /\ scanner' = TRUE
    /\ sstate' = ScanningStateNew
    /\ state_lock' = "free"
    /\ packages' = <<>>
    /\ spc' = "label_prefix"
    /\ formulas' = <<>>
    /\ casks' = <<>>
    /\ i' = 0
    /\ all_packages' = <<>>
    /\ err' = None
    /\ list_outcomes' = <<"not_run", "not_run">>
    /\ scan_threads' = scan_threads + 1
    /\ scans_started' = scans_started + 1
    /\ last_op' = "start_scanning"
    /\ UNCHANGED <<selected, delete_output_receiver, delete_result_receiver,
                   delete_output, delete_message, delete_success, del_vars>>

\* HomebrewScanner::toggle_pause through App::toggle_pause.
toggle_pause ==
    /\ scanner => state_lock = "free"
    /\ IF scanner
       THEN sstate' = [sstate EXCEPT !.is_paused = ~sstate.is_paused]
       ELSE UNCHANGED sstate
    /\ last_op' = "other"
    /\ UNCHANGED <<app_data, state_lock, packages, list_outcomes, spc, formulas, casks, i, all_packages, list_outcomes, err,
                   scan_threads, scans_started, del_vars>>

\* self.app_state = AppState::Table
back_to_table(op) ==
    /\ app_state' = Table
    /\ last_op' = op
    /\ UNCHANGED <<items, selected, scanner, delete_output_receiver,
                   delete_result_receiver, delete_output, delete_message,
                   delete_success, scan_vars, del_vars>>

nothing ==
    /\ last_op' = "ignored"
    /\ UNCHANGED <<app_data, scan_vars, del_vars>>

\* Variant of select_package: the selection is not compared with the
\* length of the inventory.
select_package_Unchecked ==
    /\ IF selected # None
       THEN app_state' = PackageSelected(selected[1])
       ELSE UNCHANGED app_state
    /\ last_op' = "select_package"
    /\ UNCHANGED <<items, selected, scanner, delete_output_receiver,
                   delete_result_receiver, delete_output, delete_message,
                   delete_success, scan_vars, del_vars>>

select_package ==
    /\ IF selected # None /\ selected[1] < Len(items)
       THEN app_state' = PackageSelected(selected[1])
       ELSE UNCHANGED app_state
    /\ last_op' = "select_package"
    /\ UNCHANGED <<items, selected, scanner, delete_output_receiver,
                   delete_result_receiver, delete_output, delete_message,
                   delete_success, scan_vars, del_vars>>

confirm_delete(package_index) ==
    /\ app_state' = ConfirmDelete(package_index)
    /\ last_op' = "other"
    /\ UNCHANGED <<items, selected, scanner, delete_output_receiver,
                   delete_result_receiver, delete_output, delete_message,
                   delete_success, scan_vars, del_vars>>

\* Variant of delete_selected_package: the selection is not compared with
\* the length of the inventory.
delete_selected_package_Unchecked ==
    IF selected # None
    THEN confirm_delete(selected[1])
    ELSE nothing

delete_selected_package ==
    IF selected # None /\ selected[1] < Len(items)
    THEN confirm_delete(selected[1])
    ELSE nothing

\* Variant of execute_delete: the worker is given the first package of the
\* inventory.
execute_delete_OnFirst(package_index) ==
    IF package_index < Len(items)
    THEN /\ app_state' = Deleting(package_index)
         /\ dpkg' = items[1]
         /\ delete_output' = <<>>
         /\ out_ch' = <<>>
         /\ res_ch' = <<>>
         /\ delete_output_receiver' = TRUE
         /\ delete_result_receiver' = TRUE
         /\ dpc' = "command_line"
         /\ dsent' = 0
         /\ dresult' = None
         /\ delete_threads' = delete_threads + 1
         /\ deletes_started' = deletes_started + 1
         /\ last_op' = "other"
         /\ UNCHANGED <<items, selected, scanner, delete_message, delete_success,
                        scan_vars>>
    ELSE nothing

execute_delete(package_index) ==
    IF package_index < Len(items)
    THEN /\ app_state' = Deleting(package_index)
         /\ dpkg' = items[package_index + 1]
         /\ delete_output' = <<>>
         /\ out_ch' = <<>>
         /\ res_ch' = <<>>
         /\ delete_output_receiver' = TRUE
         /\ delete_result_receiver' = TRUE
         /\ dpc' = "command_line"
         /\ dsent' = 0
         /\ dresult' = None
         /\ delete_threads' = delete_threads + 1
         /\ deletes_started' = deletes_started + 1
         /\ last_op' = "other"
         /\ UNCHANGED <<items, selected, scanner, delete_message, delete_success,
                        scan_vars>>
    ELSE nothing

\* self.delete_output.push(line), keeping the last DeleteOutputCap lines.
DeleteOutputCap == 20

\* Variant of PushLine: the oldest line goes when the log reaches the cap.
PushLine_DropsAtCap(log, line) ==
    IF Len(log) + 1 >= DeleteOutputCap THEN Tail(Append(log, line)) ELSE Append(log, line)

PushLine(log, line) ==
    IF Len(log) + 1 > DeleteOutputCap THEN Tail(Append(log, line)) ELSE Append(log, line)

RECURSIVE PushLines(_, _)
PushLines(log, lines) ==
    IF lines = <<>> THEN log ELSE PushLines(PushLine(log, Head(lines)), Tail(lines))

\* First half of check_delete_progress: drain the output channel.
CheckDeleteOutput ==
    /\ ctl_pc = "tick" /\ app_state.tag = "Deleting"
    /\ IF delete_output_receiver
       THEN /\ delete_output' = PushLines(delete_output, out_ch)
            /\ out_ch' = <<>>
       ELSE UNCHANGED <<delete_output, out_ch>>
    /\ ctl_pc' = "result"
    /\ last_op' = "other"
    /\ UNCHANGED <<app_state, items, selected, scanner, delete_output_receiver,
                   delete_result_receiver, delete_message, delete_success,
                   res_ch, dpc, dpkg, dsent, dresult, delete_threads, deletes_started,
                   scan_vars>>

DeleteMessage(result, package_name) ==
    IF result.ok
    THEN [text |-> "Successfully deleted package", name |-> package_name,
          error |-> "", code |-> None]
    ELSE [text |-> "Failed to delete", name |-> package_name,
          error |-> result.msg, code |-> result.code]

\* Variant of ItemsAfterDelete: the package is removed whatever the result.
ItemsAfterDelete_IgnoreSuccess(its, package_index, success) ==
    IF package_index < Len(its)
    THEN SortedItems(RemoveAt(its, package_index))
    ELSE its

\* handle_delete_result: the inventory it leaves.
ItemsAfterDelete(its, package_index, success) ==
    IF success /\ package_index < Len(its)
    THEN SortedItems(RemoveAt(its, package_index))
    ELSE its

\* handle_delete_result: the selection it leaves.
SelectionAfterDelete(its, sel, package_index, success) ==
    IF success /\ package_index < Len(its)
    THEN LET rest == ItemsAfterDelete(its, package_index, success)
         IN  IF rest = <<>> THEN None
             ELSE IF package_index >= Len(rest) THEN Some(Len(rest) - 1)
             ELSE Some(package_index)
    ELSE sel

handle_delete_result(package_index, success, message) ==
    /\ items' = ItemsAfterDelete(items, package_index, success)
    /\ selected' = SelectionAfterDelete(items, selected, package_index, success)
    /\ delete_success' = success
    /\ delete_message' = Some(message)
    /\ app_state' = Table
    /\ last_op' = IF success THEN "delete_succeeded" ELSE "delete_failed"

\* Second half of check_delete_progress: try the result channel.
CheckDeleteResult ==
    /\ ctl_pc = "result"
    /\ IF delete_result_receiver /\ res_ch # <<>>
       THEN LET result == Head(res_ch)
                package_index == app_state.idx
                package_name == IF package_index < Len(items)
                                THEN items[package_index + 1].name
                                ELSE "Unknown"
            IN  /\ delete_output_receiver' = FALSE
                /\ delete_result_receiver' = FALSE
                /\ out_ch' = <<>>
                /\ res_ch' = <<>>
                /\ IF app_state.tag = "Deleting"
                   THEN handle_delete_result(package_index, result.ok,
                                             DeleteMessage(result, package_name))
                   ELSE /\ last_op' = "other"
                        /\ UNCHANGED <<items, selected, delete_success,
                                       delete_message, app_state>>
                /\ UNCHANGED delete_output
       ELSE /\ last_op' = "other"
            /\ UNCHANGED <<app_state, items, selected, delete_output_receiver,
                           delete_result_receiver, delete_output, delete_message,
                           delete_success, out_ch, res_ch>>
    /\ ctl_pc' = "event"
    /\ UNCHANGED <<scanner, dpc, dpkg, dsent, dresult, delete_threads, deletes_started,
                   scan_vars>>

\* Variant of UpdateScanGetState: the buffer is copied whether or not the
\* scan state says scan_complete.
UpdateScanGetState_IgnoresComplete ==
    /\ ctl_pc = "tick" /\ app_state.tag = "Scanning"
    /\ scanner => state_lock = "free"
    /\ ctl_pc' = IF scanner THEN "get_packages" ELSE "event"
    /\ last_op' = "other"
    /\ UNCHANGED <<app_data, scan_vars, del_vars>>

\* First half of update_scan: scanner.get_state().
UpdateScanGetState ==
    /\ ctl_pc = "tick" /\ app_state.tag = "Scanning"
    /\ scanner => state_lock = "free"
    /\ ctl_pc' = IF scanner /\ sstate.scan_complete THEN "get_packages" ELSE "event"
    /\ last_op' = "other"
    /\ UNCHANGED <<app_data, scan_vars, del_vars>>

\* Second half of update_scan: scanner.get_packages(), sort, ScanComplete.
UpdateScanGetPackages ==
    /\ ctl_pc = "get_packages"
    /\ items' = SortedItems(packages)
    /\ selected' = SelectionAfterSort(items', selected)
    /\ app_state' = ScanComplete
    /\ ctl_pc' = "event"
    /\ last_op' = "update_scan"
    /\ UNCHANGED <<scanner, delete_output_receiver, delete_result_receiver,
                   delete_output, delete_message, delete_success, scan_vars, del_vars>>

\* event::poll timed out: no key this iteration.
Timeout ==
    /\ ctl_pc = "event" /\ app_state.tag \in {"Scanning", "Deleting"}
    /\ ctl_pc' = "tick"
    /\ last_op' = "other"
    /\ UNCHANGED <<app_data, scan_vars, del_vars>>

\* Variant of KeySpace: space in ConfirmDelete starts a scan, as in Table.
KeySpace_FromConfirm ==
    /\ ctl_pc = "event"
    /\ CASE app_state.tag \in {"Table", "ConfirmDelete"} ->
              scans_started < MaxScans /\ start_scanning
         [] app_state.tag = "Scanning" -> toggle_pause
         [] app_state.tag \in {"ScanComplete", "PackageSelected"} -> back_to_table("other")
         [] OTHER -> nothing
    /\ ctl_pc' = AfterEvent(app_state')

KeySpace ==
    /\ ctl_pc = "event"
    /\ CASE app_state.tag = "Table" -> scans_started < MaxScans /\ start_scanning
         [] app_state.tag = "Scanning" -> toggle_pause
         [] app_state.tag \in {"ScanComplete", "PackageSelected"} -> back_to_table("other")
         [] app_state.tag = "ConfirmDelete" -> back_to_table("cancel_delete")
         [] OTHER -> nothing
    /\ ctl_pc' = AfterEvent(app_state')

KeyEnter ==
    /\ ctl_pc = "event"
    /\ CASE app_state.tag = "Table" -> select_package
         [] app_state.tag \in {"ScanComplete", "PackageSelected"} -> back_to_table("other")
         [] app_state.tag = "ConfirmDelete" ->
              deletes_started < MaxDeletes /\ execute_delete(app_state.idx)
         [] OTHER -> nothing
    /\ ctl_pc' = AfterEvent(app_state')

KeyD ==
    /\ ctl_pc = "event"
    /\ CASE app_state.tag = "Table" -> delete_selected_package
         [] app_state.tag = "PackageSelected" -> confirm_delete(app_state.idx)
         [] OTHER -> nothing
    /\ ctl_pc' = AfterEvent(app_state')

\* Variant of KeyR: refresh is also accepted while a scan is running.
KeyR_WhileScanning ==
    /\ ctl_pc = "event"
    /\ IF app_state.tag \in {"Table", "Scanning"}
       THEN scans_started < MaxScans /\ start_scanning
       ELSE nothing
    /\ ctl_pc' = AfterEvent(app_state')

KeyR ==
    /\ ctl_pc = "event"
    /\ IF app_state.tag = "Table"
       THEN scans_started < MaxScans /\ start_scanning
       ELSE nothing
    /\ ctl_pc' = AfterEvent(app_state')

KeyY ==
    /\ ctl_pc = "event"
    /\ IF app_state.tag = "ConfirmDelete"
       THEN deletes_started < MaxDeletes /\ execute_delete(app_state.idx)
       ELSE nothing
    /\ ctl_pc' = AfterEvent(app_state')

\* Variant of KeyN: 'n' in ConfirmDelete confirms, as 'y' does.
KeyN_Confirms ==
    /\ ctl_pc = "event"
    /\ IF app_state.tag = "ConfirmDelete"
       THEN deletes_started < MaxDeletes /\ execute_delete(app_state.idx)
       ELSE nothing
    /\ ctl_pc' = AfterEvent(app_state')

KeyN ==
    /\ ctl_pc = "event"
    /\ IF app_state.tag = "ConfirmDelete"
       THEN back_to_table("cancel_delete")
       ELSE nothing
    /\ ctl_pc' = AfterEvent(app_state')

\* Variant of next_row: the selection moves in every interaction state.
next_row_AnyState ==
    IF items = <<>>
    THEN nothing
    ELSE /\ selected' = IF selected = None THEN Some(0)
                        ELSE IF selected[1] >= Len(items) - 1 THEN Some(0)
                        ELSE Some(selected[1] + 1)
         /\ last_op' = "other"
         /\ UNCHANGED <<app_state, items, scanner, delete_output_receiver,
                        delete_result_receiver, delete_output, delete_message,
                        delete_success, scan_vars, del_vars>>

next_row ==
    IF app_state.tag # "Table" \/ items = <<>>
    THEN nothing
    ELSE /\ selected' = IF selected = None THEN Some(0)
                        ELSE IF selected[1] >= Len(items) - 1 THEN Some(0)
                        ELSE Some(selected[1] + 1)
         /\ last_op' = "other"
         /\ UNCHANGED <<app_state, items, scanner, delete_output_receiver,
                        delete_result_receiver, delete_output, delete_message,
                        delete_success, scan_vars, del_vars>>

previous_row ==
    IF app_state.tag # "Table" \/ items = <<>>
    THEN nothing
    ELSE /\ selected' = IF selected = None THEN Some(0)
                        ELSE IF selected[1] = 0 THEN Some(Len(items) - 1)
                        ELSE Some(selected[1] - 1)
         /\ last_op' = "other"
         /\ UNCHANGED <<app_state, items, scanner, delete_output_receiver,
                        delete_result_receiver, delete_output, delete_message,
                        delete_success, scan_vars, del_vars>>

KeyDown ==
    /\ ctl_pc = "event"
    /\ next_row
    /\ ctl_pc' = AfterEvent(app_state')

KeyUp ==
    /\ ctl_pc = "event"
    /\ previous_row
    /\ ctl_pc' = AfterEvent(app_state')

\* 'q' or Esc: run returns and the process exits.
KeyQuit ==
    /\ ctl_pc = "event"
    /\ ctl_pc' = "quit"
    /\ last_op' = "quit"
    /\ UNCHANGED <<app_data, scan_vars, del_vars>>

Control ==
    \/ UpdateScanGetState \/ UpdateScanGetPackages
    \/ CheckDeleteOutput \/ CheckDeleteResult
    \/ Timeout
    \/ KeySpace \/ KeyEnter \/ KeyD \/ KeyR \/ KeyY \/ KeyN
    \/ KeyDown \/ KeyUp \/ KeyQuit

Next == Control \/ ScanWorker \/ DeleteWorker

Spec == Init /\ [][Next]_vars

\* ------------------------------------------- sorting a published buffer
MaxSortLen == 3

PackageValues ==
    {Package(n, t, info[1], info[2]) :
        n \in Names, t \in {"Formula", "Cask"},
        info \in {AccessInfo(first, atime) :
                    first \in {None, Some("path")},
                    atime \in {None} \cup {Some(tm) : tm \in Times}}}

\* What a scan can publish: formulas first, then casks.
ScanOrders ==
    {s \in SeqUpTo(PackageValues, MaxSortLen) :
        \A j \in DOMAIN s, k \in DOMAIN s :
            j < k => ~(s[j].package_type = "Cask" /\ s[k].package_type = "Formula")}

\* The control thread has seen scan_complete and is about to copy the buffer.
InitSort ==
    /\ app_state = Scanning
    /\ items = <<>>
    /\ selected = Some(0)
    /\ scanner = TRUE
    /\ delete_output_receiver = FALSE
    /\ delete_result_receiver = FALSE
    /\ delete_output = <<>>
    /\ delete_message = None
    /\ delete_success = FALSE
    /\ ctl_pc = "get_packages"
    /\ last_op = "other"
    /\ packages \in ScanOrders
    /\ sstate = [packages_found |-> Len(packages),
                 packages_scanned |-> Len(packages),
                 total_packages |-> Len(packages),
                 current_path |-> Label("Scan complete!", ""),
                 is_paused |-> FALSE,
                 scan_complete |-> TRUE,
                 error_message |-> None]
    /\ state_lock = "free"
    /\ spc = "done"
    /\ formulas = <<>>
    /\ casks = <<>>
    /\ i = 0
    /\ all_packages = <<>>
    /\ err = None
    /\ list_outcomes = <<"ok", "ok">>
    /\ scan_threads = 0
    /\ scans_started = 1
    /\ out_ch = <<>>
    /\ res_ch = <<>>
    /\ dpc = "none"
    /\ dpkg = NoPackage
    /\ dsent = 0
    /\ dresult = None
    /\ delete_threads = 0
    /\ deletes_started = 0

NextSort == UpdateScanGetPackages

SpecSort == InitSort /\ [][NextSort]_vars

\* ----------------------------------------------- deleting from a table
\* Inventories a completed scan leaves in Table: what it published, sorted.
ScannedInventories ==
    {p \in ScanOrders : Len(p) \in 1..2}

\* A scan has completed and the control thread is back in Table.
InitDelete ==
    /\ app_state = Table
    /\ packages \in ScannedInventories
    /\ items = SortedItems(packages)
    /\ selected = Some(0)
    /\ scanner = TRUE
    /\ delete_output_receiver = FALSE
    /\ delete_result_receiver = FALSE
    /\ delete_output = <<>>
    /\ delete_message = None
    /\ delete_success = FALSE
    /\ ctl_pc = "event"
    /\ last_op = "other"
    /\ sstate = [packages_found |-> Len(packages),
                 packages_scanned |-> Len(packages),
                 total_packages |-> Len(packages),
                 current_path |-> Label("Scan complete!", ""),
                 is_paused |-> FALSE,
                 scan_complete |-> TRUE,
                 error_message |-> None]
    /\ state_lock = "free"
    /\ spc = "done"
    /\ formulas = <<>>
    /\ casks = <<>>
    /\ i = 0
    /\ all_packages = <<>>
    /\ err = None
    /\ list_outcomes = <<"ok", "ok">>
    /\ scan_threads = 0
    /\ scans_started = 1
    /\ out_ch = <<>>
    /\ res_ch = <<>>
    /\ dpc = "none"
    /\ dpkg = NoPackage
    /\ dsent = 0
    /\ dresult = None
    /\ delete_threads = 0
    /\ deletes_started = 0

\* The control thread without the keys that start a scan, and the delete
\* worker.
NextDelete ==
    \/ CheckDeleteOutput \/ CheckDeleteResult \/ Timeout
    \/ KeyEnter \/ KeyD \/ KeyY \/ KeyN \/ KeyDown \/ KeyUp \/ KeyQuit
    \/ DeleteWorker

\* The loop of run goes on (event::poll times out, check_delete_progress
\* runs on every pass), the worker thread is scheduled and the child ends.
FairDelete ==
    /\ WF_vars(Timeout)
    /\ WF_vars(CheckDeleteOutput)
    /\ WF_vars(CheckDeleteResult)
    /\ WF_vars(DeleteWorker)

SpecDelete == InitDelete /\ [][NextDelete]_vars /\ FairDelete

\* ------------------------------------------------------ scanning, fairly
\* The control thread with the keys that act on a scan, and the scan worker.
NextScan ==
    \/ UpdateScanGetState \/ UpdateScanGetPackages \/ Timeout
    \/ KeySpace \/ KeyR \/ KeyQuit
    \/ ScanWorker

\* The loop of run goes on (event::poll times out, update_scan runs on
\* every pass), the worker thread is scheduled, and every manager query
\* and filesystem call returns.
FairScan ==
    /\ WF_vars(Timeout)
    /\ WF_vars(UpdateScanGetState)
    /\ WF_vars(UpdateScanGetPackages)
    /\ WF_vars(ScanWorker)

SpecScan == Init /\ [][NextScan]_vars /\ FairScan

\* ------------------------------------------------- a long delete output
\* A child that writes up to MaxLogLines lines, more than the log keeps.
MaxLogLines == 22

DeleteStdoutLong == DeleteStdoutLines(MaxLogLines)

\* The control thread launching deletes from the table and draining the
\* output channel, and the delete worker up to the end of the child's
\* standard output.
NextLog ==
    \/ KeyD \/ KeyY \/ Timeout \/ CheckDeleteOutput \/ CheckDeleteResult
    \/ DeleteSendCommandLine \/ DeleteSendBlank \/ DeleteSpawn
    \/ DeleteStdoutLong \/ DeleteSendResult

SpecLog == InitDelete /\ [][NextLog]_vars

\* ------------------------------------------------------------ properties
HasTime(p) == p.last_accessed # None

NoTime(p) == p.last_accessed = None

Count(s, p) == Cardinality({k \in DOMAIN s : s[k] = p})

Range(s) == {s[k] : k \in DOMAIN s}

\* The control thread takes the result off the result channel.
ResultObserved ==
    /\ ctl_pc = "result" /\ delete_result_receiver /\ res_ch # <<>>
    /\ ctl_pc' = "event"

\* C1: within a delete, every output line the worker sent before its result
\* has been received by the control thread when it observes the result.
C1_OutputBeforeResult ==
    [][ResultObserved => out_ch = <<>>]_vars

\* C2: at most one scan worker and at most one delete worker are active;
\* a scan worker runs only in Scanning and, once none runs, the scan has set
\* scan_complete; a delete worker runs only in Deleting and, outside
\* Deleting, its result has been taken.
C2_OneWorkerEach ==
    /\ scan_threads <= 1
    /\ delete_threads <= 1
    /\ scan_threads = 1 <=> (spc \notin {"none", "done"})
    /\ delete_threads = 1 <=> (dpc \notin {"none", "done"})
    /\ app_state.tag # "Scanning" => scan_threads = 0
    /\ (scan_threads = 0 /\ scans_started > 0) => sstate.scan_complete
    /\ app_state.tag # "Deleting" => (delete_threads = 0 /\ ~delete_result_receiver)

\* A second scan runs after a delete has come and gone.
C2_Witness ==
    /\ scans_started = 2 /\ scan_threads = 1
    /\ deletes_started >= 1 /\ delete_threads = 0

\* C3: in ConfirmDelete and Deleting no step starts a scan or clears the
\* inventory (only the executor's result changes it), and a scan worker and
\* a delete worker are never active together.
C3_NoScanDuringDelete ==
    /\ [](~(scan_threads > 0 /\ delete_threads > 0))
    /\ [][app_state.tag \in {"ConfirmDelete", "Deleting"} =>
            /\ scans_started' = scans_started
            /\ scan_threads' = scan_threads
            /\ app_state'.tag # "Scanning"
            /\ items' # items => (app_state.tag = "Deleting" /\ ResultObserved)]_vars

C3_Witness ==
    /\ app_state.tag = "Deleting" /\ delete_threads = 1 /\ ctl_pc = "event"
    /\ scan_threads = 0 /\ scans_started < MaxScans

\* C4: during a scan packages_scanned never decreases and never exceeds
\* total_packages, whatever the pause toggles do.
C4_ScannedMonotone ==
    /\ [](sstate.packages_scanned <= sstate.total_packages)
    /\ [][scans_started' = scans_started =>
            sstate'.packages_scanned >= sstate.packages_scanned]_vars

\* The formula was skipped under a pause, the scan resumed, the cask counted.
C4_Witness ==
    /\ spc = "cask_found" /\ Len(formulas) = 1 /\ Len(all_packages) = 1
    /\ sstate.packages_scanned = 2

IsSortedByUsage(s) ==
    \A k \in 1..(Len(s) - 1) :
        /\ ~(HasTime(s[k]) /\ NoTime(s[k + 1]))
        /\ (HasTime(s[k]) /\ HasTime(s[k + 1])) =>
               s[k].last_accessed[1] <= s[k + 1].last_accessed[1]

\* C5: the inventory is sorted in every reachable state: no package without
\* an access time follows one with a time, and times ascend.
C5_InventorySorted == IsSortedByUsage(items)

\* The scan published the packages in another order than the sorted one.
C5_Witness ==
    /\ app_state = ScanComplete /\ Len(items) = 2 /\ items # packages

\* What sorting promises of its output.
SortContract(in, out) ==
    LET nones == SelectSeq(in, NoTime)
    IN  /\ Len(out) = Len(in)
        /\ \A p \in Range(in) \cup Range(out) : Count(in, p) = Count(out, p)
        /\ SubSeq(out, 1, Len(nones)) = nones
        /\ \A k \in (Len(nones) + 1)..Len(out) : HasTime(out[k])
        /\ \A k \in (Len(nones) + 1)..(Len(out) - 1) :
               out[k].last_accessed[1] <= out[k + 1].last_accessed[1]

\* C6: the sorted inventory is a permutation of the published buffer with
\* the packages lacking an access time first, in scan order, followed by the
\* others in ascending time.
C6_SortContract ==
    last_op = "update_scan" => SortContract(packages, items)

\* Scenario A: published in the order t2, t1, none.
C6_Witness ==
    /\ last_op = "update_scan" /\ Len(items) = 3
    /\ HasTime(packages[1]) /\ packages[1].last_accessed[1] = 2
    /\ HasTime(packages[2]) /\ packages[2].last_accessed[1] = 1
    /\ NoTime(packages[3])
    /\ items = <<packages[3], packages[2], packages[1]>>

\* The control thread takes a success (ok) or a failure off the result channel.
SuccessObserved == ResultObserved /\ Head(res_ch).ok /\ app_state.tag = "Deleting"

FailureObserved == ResultObserved /\ ~Head(res_ch).ok /\ app_state.tag = "Deleting"

\* C7 as stated: after a successful delete of the package at idx the
\* inventory is one shorter and no remaining package has its name.
C7_NoSameNameLeft ==
    [][SuccessObserved =>
          /\ Len(items') = Len(items) - 1
          /\ \A k \in DOMAIN items' :
                 items'[k].name # items[app_state.idx + 1].name]_vars

\* C7 amended: after a successful delete of the package at idx the
\* inventory is one shorter and holds exactly the other packages, in their
\* previous order; a package of the same name at another index stays.
C7_ExactlyOneRemoved ==
    [][SuccessObserved =>
          /\ Len(items') = Len(items) - 1
          /\ \A k \in DOMAIN items' :
                 items'[k] = IF k <= app_state.idx THEN items[k] ELSE items[k + 1]]_vars

\* A formula and a cask of one name: one was deleted, the other is left.
C7_Witness ==
    /\ last_op = "delete_succeeded" /\ Len(items) = 1
    /\ delete_message # None /\ delete_message[1].name = items[1].name

\* C8: when the executor reports failure the state machine returns to Table
\* with the inventory unchanged and a status message recorded.
C8_FailureKeepsInventory ==
    [][FailureObserved =>
          /\ app_state' = Table
          /\ items' = items
          /\ delete_message' # None
          /\ delete_message'[1].text = "Failed to delete"
          /\ delete_message'[1].error = Head(res_ch).msg
          /\ ~delete_success']_vars

C8_Witness ==
    /\ last_op = "delete_failed" /\ app_state = Table /\ Len(items) = 2
    /\ delete_message # None /\ delete_message[1].code = Some(1)

\* C9: a cancel in ConfirmDelete(idx) moves to Table, leaves the inventory
\* and the selection unchanged and launches no delete worker.
C9_CancelChangesNothing ==
    [][(app_state.tag = "ConfirmDelete" /\ (KeyN \/ KeySpace)) =>
          /\ app_state' = Table
          /\ items' = items
          /\ selected' = selected
          /\ deletes_started' = deletes_started
          /\ delete_threads' = delete_threads
          /\ dpc' = dpc]_vars

C9_Witness ==
    /\ last_op = "cancel_delete" /\ app_state = Table
    /\ Len(items) = 2 /\ selected = Some(1)

ListQueryFailed ==
    \E k \in 1..2 : list_outcomes[k] \in {"spawn_failed", "nonzero_exit", "invalid_utf8"}

ListQueryErrored ==
    \E k \in 1..2 : list_outcomes[k] \in {"spawn_failed", "invalid_utf8"}

ScanEndedInError ==
    /\ items = <<>>
    /\ packages = <<>>
    /\ sstate.error_message # None
    /\ sstate.error_message[1] # ""
    /\ sstate.scan_complete

\* C10 as stated: a scan whose list query cannot be started, exits non-zero
\* or returns non-UTF-8 text ends with the inventory empty, an error message
\* and scan_complete set.
C10_ListFailureEndsInError ==
    (spc = "done" /\ ListQueryFailed) => ScanEndedInError

\* C10 amended: a scan whose list query cannot be started or returns
\* non-UTF-8 text ends with the inventory empty, an error message and
\* scan_complete set; a list query that exits non-zero yields an empty list
\* and no error.
C10_ListErrorEndsInError ==
    /\ (spc = "done" /\ ListQueryErrored) => ScanEndedInError
    /\ (spc = "done" /\ list_outcomes = <<"nonzero_exit", "nonzero_exit">>) =>
           (sstate.error_message = None /\ packages = <<>> /\ sstate.scan_complete)

\* The formula list was read, the cask list was not UTF-8; the control thread
\* has moved to ScanComplete.
C10_Witness ==
    /\ spc = "done" /\ list_outcomes = <<"ok", "invalid_utf8">>
    /\ last_op = "update_scan" /\ app_state = ScanComplete

\* C11: whenever the scan state carries an error message, scan_complete is
\* set, the shared package buffer is empty and so is the inventory, before
\* and after the control thread has moved to ScanComplete.
C11_FailedScanPublishesNothing ==
    sstate.error_message # None =>
        /\ sstate.scan_complete
        /\ packages = <<>>
        /\ items = <<>>

\* A first scan published packages, one of which was then deleted; the
\* second scan failed at the prefix query and the control thread has moved
\* to ScanComplete.
C11_Witness ==
    /\ scans_started = 2 /\ deletes_started = 1
    /\ spc = "done" /\ sstate.error_message # None
    /\ list_outcomes = <<"not_run", "not_run">>
    /\ last_op = "update_scan" /\ app_state = ScanComplete

\* The lines the delete worker has sent since it was started: those the
\* control thread has received and those still in the channel.
LinesSent == delete_output \o out_ch

\* The worker could not start the process, has sent its result and is gone;
\* the control thread has not taken the result yet.
SpawnFailureResolved ==
    /\ delete_result_receiver /\ dpc = "done" /\ res_ch # <<>>
    /\ ~res_ch[1].ok /\ res_ch[1].msg = "Failed to start brew uninstall"

\* C12 as stated: a delete worker that cannot start the process sends no
\* output line and exactly one result, a failure without an exit code.
C12_SpawnFailureSendsNothing ==
    SpawnFailureResolved =>
        /\ LinesSent = <<>>
        /\ Len(res_ch) = 1
        /\ res_ch[1].code = None

\* C12 amended: a delete worker that cannot start the process has sent the
\* command line and a blank line, which precede the attempt, and nothing
\* else; it sends exactly one result, a failure without an exit code.
C12_SpawnFailureSendsTrace ==
    SpawnFailureResolved =>
        /\ LinesSent = <<Line("command_line", 0), Line("blank", 0)>>
        /\ Len(res_ch) = 1
        /\ res_ch[1].code = None

\* The control thread received the command line before the failure.
C12_Witness ==
    /\ SpawnFailureResolved /\ Len(delete_output) = 1 /\ Len(out_ch) = 1

PathIffTime(p) == (p.last_accessed_path # None) <=> (p.last_accessed # None)

\* C13: every package the scan worker has built, published or handed to the
\* inventory has an access path exactly when it has an access time.
C13_PathIffTime ==
    \A p \in Range(all_packages) \cup Range(packages) \cup Range(items) : PathIffTime(p)

SelectionInRange ==
    IF items = <<>>
    THEN selected = None
    ELSE selected # None /\ selected[1] < Len(items)

\* C14: right after the control thread has taken over a completed scan and
\* right after a successful delete, the selection is a row of the inventory,
\* or none when the inventory is empty.
C14_SelectionInRange ==
    last_op \in {"update_scan", "delete_succeeded"} => SelectionInRange

\* The scan has listed every package it was told to scan.
ScannedAll == Len(packages) = sstate.total_packages

\* C15: a pause toggle in Scanning leaves the state machine in Scanning,
\* the worker where it is, scan_complete as it was and what was collected
\* in place; and a scan is complete only by running through its lists or by
\* an error, never because it was paused.
C15_PauseOnlyStopsIterations ==
    /\ [][(app_state.tag = "Scanning" /\ KeySpace) =>
            /\ app_state' = Scanning
            /\ scan_threads' = scan_threads
            /\ spc' = spc
            /\ sstate'.scan_complete = sstate.scan_complete
            /\ sstate'.packages_scanned = sstate.packages_scanned
            /\ sstate'.packages_found = sstate.packages_found
            /\ all_packages' = all_packages
            /\ packages' = packages]_vars
    /\ []((sstate.scan_complete /\ sstate.error_message = None) => ScannedAll)

\* The scan worker returned an error: from the prefix query, after which no
\* list query runs, or from a list query.
ScanAborted ==
    spc = "done" /\ (list_outcomes[1] = "not_run" \/ ListQueryErrored)

DeleteFailures ==
    {"Failed to start brew uninstall", "Failed to wait for brew process",
     "brew uninstall failed with exit code"}

\* C16: from the end of an aborted scan until the next scan is started the
\* scan state carries a non-empty error message; after a failed delete the
\* status message is set, says that the delete failed, names the package
\* and carries the worker's error.
C16_FailureLeavesMessage ==
    /\ ScanAborted =>
          /\ sstate.error_message # None
          /\ sstate.error_message[1] # ""
    /\ last_op = "delete_failed" =>
          /\ delete_message # None
          /\ ~delete_success
          /\ delete_message[1].text = "Failed to delete"
          /\ delete_message[1].name \in Names
          /\ delete_message[1].error \in DeleteFailures

\* A delete failed in child.wait(); the scan after it was aborted by a list
\* query and has been taken over by the control thread.
C16_Witness ==
    /\ ScanAborted /\ ListQueryErrored /\ scans_started = 2
    /\ app_state = ScanComplete
    /\ delete_message # None /\ ~delete_success
    /\ delete_message[1].error = "Failed to wait for brew process"

\* C17: sorting an inventory that sort_packages_by_usage has just sorted
\* leaves it as it is.
C17_SortIdempotent ==
    last_op = "update_scan" => SortedItems(items) = items

\* Two different packages without an access time behind one with a time.
C17_Witness ==
    /\ last_op = "update_scan" /\ Len(packages) = 3
    /\ HasTime(packages[1]) /\ NoTime(packages[2]) /\ NoTime(packages[3])
    /\ packages[2] # packages[3]
    /\ items = <<packages[2], packages[3], packages[1]>>

\* The order in which scan_packages goes through what the manager listed.
EnumerationOrder ==
    [k \in 1..(Len(formulas) + Len(casks)) |->
        IF k <= Len(formulas) THEN <<formulas[k], "Formula">>
        ELSE <<casks[k - Len(formulas)], "Cask">>]

IsEnumerationPrefix(s) ==
    /\ Len(s) <= Len(EnumerationOrder)
    /\ \A k \in DOMAIN s : <<s[k].name, s[k].package_type>> = EnumerationOrder[k]

\* C18: while the worker lives, the packages it has collected and the
\* packages it has published are the first packages of the enumeration,
\* formulas then casks, with none left out before the last one.
C18_PublishedIsPrefix ==
    spc \notin {"none", "done"} =>
        (IsEnumerationPrefix(all_packages) /\ IsEnumerationPrefix(packages))

\* C19: once scan_complete is set, no step changes a field of the scan
\* state, until a new scan replaces it.
C19_FrozenOnceComplete ==
    [][(sstate.scan_complete /\ scans_started' = scans_started) => sstate' = sstate]_vars

\* C20 as stated: when the worker has written the package buffer,
\* scan_complete is set.
C20_PublishedImpliesComplete ==
    spc \in {"complete", "done"} => sstate.scan_complete

\* C20 amended: the worker writes the package buffer once, with all it
\* collected, in a step of its own that precedes the one setting
\* scan_complete; when scan_complete is set the worker is gone and, if there
\* was no error, the buffer holds the packages counted in packages_found.
C20_PublishedBeforeComplete ==
    /\ spc \notin {"none", "complete", "done"} => packages = <<>>
    /\ spc = "complete" => (packages = all_packages /\ ~sstate.scan_complete)
    /\ sstate.scan_complete => spc = "done"
    /\ (sstate.scan_complete /\ sstate.error_message = None) =>
           Len(packages) = sstate.packages_found

\* Two packages are in the buffer, scan_complete is not set yet and the
\* control thread has just polled the scan state.
C20_Witness ==
    /\ spc = "complete" /\ Len(packages) = 2 /\ ~sstate.scan_complete
    /\ app_state = Scanning /\ ctl_pc = "event"

\* C21: the control thread copies the package buffer only when the worker
\* has written it and is gone; the buffer the worker wrote is all it
\* collected, and packages_found counts it; the inventory installed on the
\* move to ScanComplete is that buffer sorted, and the first row is selected
\* when it is not empty.
C21_InstallsWholeBuffer ==
    /\ spc = "complete" => packages = all_packages
    /\ ctl_pc = "get_packages" => (spc = "done" /\ sstate.scan_complete)
    /\ last_op = "update_scan" =>
          /\ app_state = ScanComplete
          /\ spc = "done"
          /\ Len(packages) = sstate.packages_found
          /\ SortContract(packages, items)
          /\ items # <<>> => selected = Some(0)

\* A rescan after a delete: two packages came in another order than the
\* sorted one and the selection is back on the first row.
C21_Witness ==
    /\ last_op = "update_scan" /\ scans_started = 2 /\ deletes_started = 1
    /\ sstate.packages_found = 2 /\ Len(items) = 2 /\ items # packages
    /\ selected = Some(0)

\* The worker is in a query of the manager or in a call to the file system.
BlockingCall == spc \in {"prefix", "list", "formula_find", "cask_find"}

\* C22: while the scan worker is in a subprocess query or in a file system
\* call it does not hold the lock of the scan state.
C22_NoLockInBlockingCall ==
    BlockingCall => state_lock # "scan_worker"

\* The worker has released the lock after its pause check; the control
\* thread took it and set is_paused before the worker looks for the paths.
C22_Witness ==
    /\ spc = "formula_find" /\ state_lock = "free" /\ sstate.is_paused

\* C23: a thread about to lock the package buffer (the worker publishing,
\* the control thread copying) does not hold the lock of the scan state,
\* and the worker holds that lock across a step only while it sleeps, where
\* it waits for no other lock.
C23_LocksNotNested ==
    /\ spc = "publish" => state_lock # "scan_worker"
    /\ ctl_pc = "get_packages" => state_lock # "control"
    /\ state_lock = "scan_worker" => spc \in {"formula_sleep", "cask_sleep"}

\* The worker left the cask loop by the pause break, with a cask unscanned,
\* and is about to lock the buffer.
C23_Witness ==
    /\ spc = "publish" /\ state_lock = "free"
    /\ sstate.is_paused /\ i < Len(casks)

\* C24: the index carried by PackageSelected, ConfirmDelete and Deleting is
\* an index of the inventory.
C24_IndexValid ==
    app_state.tag \in {"PackageSelected", "ConfirmDelete", "Deleting"} =>
        app_state.idx < Len(items)

\* The second of two packages is being deleted.
C24_Witness ==
    /\ app_state = Deleting(1) /\ Len(items) = 2 /\ delete_threads = 1

\* The step is the confirm of a delete: 'y' or Enter in ConfirmDelete.
ConfirmKey == app_state.tag = "ConfirmDelete" /\ (KeyY \/ KeyEnter)

\* C26: a confirm in ConfirmDelete(idx) moves to Deleting(idx) and starts a
\* delete worker on the package at idx; as long as the machine is in
\* Deleting the inventory and the index stay, so the worker's package is the
\* one at idx; on success exactly the package at idx leaves the inventory,
\* the others keep their order, which is sorted.
C26_DeletesWhatWasLaunched ==
    [][/\ ConfirmKey =>
            /\ app_state' = Deleting(app_state.idx)
            /\ dpkg' = items[app_state.idx + 1]
            /\ dpc' = "command_line"
            /\ delete_threads' = delete_threads + 1
            /\ items' = items
       /\ (app_state.tag = "Deleting" /\ delete_threads = 1) =>
            dpkg = items[app_state.idx + 1]
       /\ (app_state.tag = "Deleting" /\ app_state'.tag = "Deleting") =>
            (app_state' = app_state /\ items' = items)
       /\ SuccessObserved =>
            /\ Len(items') = Len(items) - 1
            /\ \A k \in DOMAIN items' :
                   items'[k] = IF k <= app_state.idx THEN items[k] ELSE items[k + 1]
            /\ IsSortedByUsage(items')]_vars

\* The worker started on the second of two packages has reported success,
\* which the control thread is about to take.
C26_Witness ==
    /\ app_state = Deleting(1) /\ Len(items) = 2
    /\ ctl_pc = "result" /\ delete_result_receiver
    /\ res_ch # <<>> /\ res_ch[1].ok

ValidSelection == selected # None /\ selected[1] < Len(items)

\* What a select or a delete command from Table leaves as it was.
TableCommandKeeps ==
    UNCHANGED <<items, selected, scanner, delete_output_receiver, delete_result_receiver,
                delete_output, delete_message, delete_success, scan_vars, del_vars>>

\* C27: in Table, Enter moves to PackageSelected(idx) and 'd' to
\* ConfirmDelete(idx) when idx is the selection and a row of the inventory;
\* otherwise the machine stays in Table; either way nothing else changes,
\* and Table is left for those two states in no other way.
C27_TableNeedsValidSelection ==
    [][/\ (app_state = Table /\ KeyEnter) =>
            /\ app_state' = IF ValidSelection THEN PackageSelected(selected[1]) ELSE Table
            /\ TableCommandKeeps
       /\ (app_state = Table /\ KeyD) =>
            /\ app_state' = IF ValidSelection THEN ConfirmDelete(selected[1]) ELSE Table
            /\ TableCommandKeeps
       /\ (app_state = Table /\ app_state'.tag \in {"PackageSelected", "ConfirmDelete"}) =>
            (ValidSelection /\ app_state'.idx = selected[1])]_vars

\* Enter was pressed in Table after a scan that found nothing: row 0 is
\* selected, the inventory is empty and the machine is still in Table.
C27_Witness ==
    /\ last_op = "select_package" /\ app_state = Table
    /\ selected = Some(0) /\ items = <<>> /\ scans_started = 1

\* The step is a start or refresh command in Table.
StartKey == app_state = Table /\ (KeySpace \/ KeyR)

\* C28: a start or refresh command in Table moves to Scanning, clears the
\* inventory and starts a scan worker on a new scan state (counters 0, not
\* paused, not complete, no error) and an empty buffer; no other step
\* starts a scan.
C28_StartFromTableOnly ==
    [][/\ StartKey =>
            /\ app_state' = Scanning
            /\ items' = <<>>
            /\ sstate'.packages_found = 0
            /\ sstate'.packages_scanned = 0
            /\ sstate'.total_packages = 0
            /\ ~sstate'.is_paused
            /\ ~sstate'.scan_complete
            /\ sstate'.error_message = None
            /\ packages' = <<>>
            /\ spc' = "label_prefix"
            /\ scan_threads' = scan_threads + 1
            /\ scans_started' = scans_started + 1
       /\ (scans_started' # scans_started \/ scan_threads' > scan_threads) =>
            StartKey]_vars

\* A second scan has just been started on a new scan state, the first one
\* being over; the selection is what it was.
C28_Witness ==
    /\ last_op = "start_scanning" /\ scans_started = 2
    /\ sstate = ScanningStateNew /\ spc = "label_prefix"
    /\ scan_threads = 1 /\ items = <<>> /\ selected = Some(0)
    /\ delete_message = None

TraceLines == <<Line("command_line", 0), Line("blank", 0)>>

StdoutLines(n) == [k \in 1..n |-> Line("stdout", k)]

StderrLines(n) == [k \in 1..n |-> Line("stderr", k)]

FailureStream(n, m) == TraceLines \o StdoutLines(n) \o StderrLines(m)

SuccessStream(n) ==
    TraceLines \o StdoutLines(n) \o <<Line("blank", 0), Line("success_marker", 0)>>

IsPrefix(a, b) == Len(a) <= Len(b) /\ SubSeq(b, 1, Len(a)) = a

\* C29: what a delete worker has sent is the beginning of: the command
\* line, a blank line, the lines of standard output in their order, then
\* either the lines of standard error or a blank line and the success
\* marker.  It sends one result: success after the complete success stream;
\* a failure with the exit code, if there is one, after standard output and
\* standard error; a failure without code, and no standard error, when the
\* process could not be started or waited for.
C29_OutputOrdered ==
    delete_result_receiver =>
        /\ \E n \in 0..MaxStdout, m \in 0..MaxStderr :
              \/ IsPrefix(LinesSent, FailureStream(n, m))
              \/ IsPrefix(LinesSent, SuccessStream(n))
        /\ Len(res_ch) <= 1
        /\ res_ch # <<>> =>
              /\ dpc = "done"
              /\ IF res_ch[1].ok
                 THEN \E n \in 0..MaxStdout : LinesSent = SuccessStream(n)
                 ELSE IF res_ch[1].msg = "brew uninstall failed with exit code"
                 THEN /\ \E n \in 0..MaxStdout, m \in 0..MaxStderr :
                            LinesSent = FailureStream(n, m)
                      /\ res_ch[1].code \in {None, Some(1)}
                 ELSE /\ \E n \in 0..MaxStdout : LinesSent = FailureStream(n, 0)
                      /\ res_ch[1].code = None

\* The process wrote a line to each stream and exited with a code.
C29_Witness ==
    /\ delete_result_receiver /\ res_ch # <<>>
    /\ res_ch[1].code = Some(1)
    /\ LinesSent = FailureStream(1, 1)

\* The machine is back in Table, a status message is recorded and both
\* receivers are dropped.
BackInTable ==
    /\ app_state = Table
    /\ delete_message # None
    /\ ~delete_output_receiver
    /\ ~delete_result_receiver

\* C30 as stated: with the control thread and the delete worker scheduled
\* fairly and the child ending, Deleting leads to Table with a status
\* message recorded and both receivers dropped.
C30_DeletingLeadsToTable ==
    (app_state.tag = "Deleting") ~> BackInTable

\* C30 amended: the same, unless the user quits while the delete runs.
C30_DeletingLeadsToTableOrQuit ==
    (app_state.tag = "Deleting") ~> (BackInTable \/ ctl_pc = "quit")

\* Two deletes have come back to Table, the second one emptying the
\* inventory.
C30_Witness ==
    /\ BackInTable /\ deletes_started = 2 /\ last_op = "delete_succeeded"
    /\ items = <<>> /\ dpc = "done"

\* The shared scan state is marked complete and the control thread has
\* moved on to ScanComplete.
ScanShownComplete ==
    /\ sstate.scan_complete
    /\ app_state = ScanComplete

\* C31 as stated: with the control thread and the scan worker scheduled
\* fairly and every query and filesystem call returning, Scanning leads to
\* the scan being marked complete (with or without an error) and to the
\* state machine being in ScanComplete.
C31_ScanningLeadsToComplete ==
    (app_state.tag = "Scanning") ~> ScanShownComplete

\* C31 amended: the same, unless the user quits while the scan runs.
C31_ScanningLeadsToCompleteOrQuit ==
    (app_state.tag = "Scanning") ~> (ScanShownComplete \/ ctl_pc = "quit")

\* A scan that was never left paused walked both lists and the control
\* thread has installed its two packages and moved to ScanComplete.
C31_Witness ==
    /\ ScanShownComplete /\ last_op = "update_scan"
    /\ ~sstate.is_paused /\ sstate.error_message = None
    /\ Len(items) = 2 /\ sstate.total_packages = 2

\* The step is a key command other than quit.
CommandKey ==
    KeySpace \/ KeyEnter \/ KeyD \/ KeyR \/ KeyY \/ KeyN \/ KeyDown \/ KeyUp

C33_CountersOrdered ==
    /\ sstate.packages_found <= sstate.packages_scanned
    /\ sstate.packages_scanned <= sstate.total_packages
    /\ (sstate.scan_complete /\ sstate.error_message = None) =>
           sstate.packages_found = Len(packages)

\* A scan of two packages is complete without error, a pause having cut a
\* loop short: one package was found and published, two count as scanned.
C33_Witness ==
    /\ spc = "done" /\ sstate.scan_complete /\ sstate.error_message = None
    /\ sstate.packages_found = 1 /\ sstate.packages_scanned = 2
    /\ sstate.total_packages = 2 /\ Len(packages) = 1

\* What the delete worker has sent so far, from the point it has reached.
LogSent ==
    CASE dpc = "command_line" -> <<>>
      [] dpc = "blank" -> <<Line("command_line", 0)>>
      [] dpc = "stdout" -> TraceLines \o StdoutLines(dsent)
      [] OTHER -> TraceLines

\* What the control thread has received of it: all but what is in flight.
LogReceived == SubSeq(LogSent, 1, Len(LogSent) - Len(out_ch))

\* The last k elements of s, all of s when it has fewer.
LastLines(s, k) ==
    IF Len(s) <= k THEN s ELSE SubSeq(s, Len(s) - k + 1, Len(s))

\* C34: the delete output log never holds more than 20 lines; while a
\* delete is in progress it holds the last min(n, 20) of the n lines
\* received for that delete, in arrival order, so it is empty at the launch.
C34_LogKeepsLastLines ==
    /\ Len(delete_output) <= DeleteOutputCap
    /\ (app_state.tag = "Deleting" /\ dpc # "wait") =>
           delete_output = LastLines(LogReceived, DeleteOutputCap)

\* In a second delete twenty-three lines have been received, the two of
\* the trace and twenty-one of the child: the log holds the second to the
\* twenty-first line of the child.
C34_Witness ==
    /\ app_state.tag = "Deleting" /\ deletes_started = 2
    /\ Len(delete_output) = DeleteOutputCap
    /\ delete_output[1] = Line("stdout", 2)
    /\ delete_output[DeleteOutputCap] = Line("stdout", 21)

====
